---------------------------- MODULE Spec2Model ----------------------------
(***************************************************************************)
(* A model of src/utf8.c of r-corpus: the UTF-8 validity walk (is_valid),  *)
(* the width walk (charsxp_width), the two-pass escape engine              *)
(* (needs_encode_chars / encode_chars, needs_encode_bytes / encode_bytes,  *)
(* charsxp_encode) and the four entry points that loop over a character    *)
(* vector (utf8_coerce, utf8_valid, utf8_width, utf8_encode).              *)
(*                                                                         *)
(* A byte buffer is a sequence of integers in 1..255 (an R string holds no *)
(* embedded NUL); a cursor is a 0-based offset, so the byte under cursor p *)
(* of buffer s is s[p+1] and `end` is Len(s).  Every loop iteration of the *)
(* source is one action; the body of each loop is an operator that the     *)
(* action applies.                                                         *)
(*                                                                         *)
(* The corpus library (corpus_scan_utf8, corpus_decode_utf8,               *)
(* corpus_unicode_charwidth, CORPUS_UTF8_TAIL_LEN, corpus_array_size_add)  *)
(* is not part of src/utf8.c; it is modelled from the specification's      *)
(* description of the scanner, the decoder and the classifier.             *)
(***************************************************************************)
EXTENDS Integers, Sequences, FiniteSets

(***************************************************************************)
(* Bounds of the model.                                                    *)
(***************************************************************************)
\* An input buffer is the concatenation of at most MaxChunks chunks.
MaxChunks == 2
\* A batch vector of small elements has at most MaxN elements.
MaxN == 3
\* The `int` of the model: sizes are kept in -(INT_MAX+1) .. INT_MAX and an
\* unguarded addition wraps.  The width is scaled down so that the overflow
\* guard of the size estimators is reachable with short inputs.
INT_MAX == 15
\* corpus_array_size_add may round a capacity up by at most this much.
MaxSlack == 2

(***************************************************************************)
(* Bytes, masks and hexadecimal formatting.                                *)
(***************************************************************************)
\* The k most significant bits of byte x: (x & mask) == v for a mask of k
\* leading ones is HiBits(x, k) = v >> (8 - k).
HiBits(x, k) == x \div (2 ^ (8 - k))

\* The k least significant bits of x: x & (2^k - 1).
LoBits(x, k) == x % (2 ^ k)

\* isprint() of the C locale on a code below 0x80.
isprint(c) == c >= 32 /\ c <= 126

\* One lowercase hexadecimal digit, as printf's %x writes it.
HexChar(d) == IF d < 10 THEN 48 + d ELSE 87 + d

RECURSIVE HexDigits(_)
\* The digits of v in base 16, most significant first, without padding.
HexDigits(v) ==
    IF v < 16 THEN << HexChar(v) >>
    ELSE Append(HexDigits(v \div 16), HexChar(v % 16))

RECURSIVE ZeroPad(_, _)
\* printf's 0<w> flag: pad on the left with '0' to a width of at least w.
ZeroPad(ds, w) == IF Len(ds) >= w THEN ds ELSE ZeroPad(<< 48 >> \o ds, w)

\* sprintf(dst, "\\x%02x", b): the characters and the terminating NUL.
sprintf_x(b) == << 92, 120 >> \o ZeroPad(HexDigits(b), 2) \o << 0 >>

\* sprintf(dst, "\\u%04x", code): the characters and the terminating NUL.
sprintf_u(code) == << 92, 117 >> \o ZeroPad(HexDigits(code), 4) \o << 0 >>

\* sprintf(dst, "\\U%08x", code): the characters and the terminating NUL.
sprintf_U(code) == << 92, 85 >> \o ZeroPad(HexDigits(code), 8) \o << 0 >>

\* The zero-width space U+200B in UTF-8 and its length.
ZWSP == << 226, 128, 139 >>
ZWSP_NBYTE == 3

(***************************************************************************)
(* The corpus library: tail lengths, the scanner, the decoder and the      *)
(* width classifier.                                                       *)
(***************************************************************************)
\* The number of continuation bytes the lead byte x announces.
CORPUS_UTF8_TAIL_LEN(x) ==
    IF HiBits(x, 1) = 0 THEN 0
    ELSE IF HiBits(x, 3) = 6 THEN 1
    ELSE IF HiBits(x, 4) = 14 THEN 2
    ELSE 3

\* Whether ch is acceptable as the first continuation byte after lead ch1:
\* E0 A0..BF, ED 80..9F, F0 90..BF, F4 80..8F, otherwise 80..BF.
FirstContOk(ch1, ch) ==
    CASE ch1 = 224 -> HiBits(ch, 3) = 5
      [] ch1 = 237 -> HiBits(ch, 3) = 4
      [] ch1 = 240 -> HiBits(ch, 3) = 5 \/ HiBits(ch, 4) = 9
      [] ch1 = 244 -> HiBits(ch, 4) = 8
      [] OTHER -> HiBits(ch, 2) = 2

\* The number of continuation bytes the scanner expects after lead ch1, or
\* -1 when ch1 cannot start a unit run (80..BF, C0, C1, F5..FF).
ScanTail(ch1) ==
    IF HiBits(ch1, 1) = 0 THEN 0
    ELSE IF HiBits(ch1, 2) = 2 THEN -1
    ELSE IF HiBits(ch1, 3) = 6 THEN (IF ch1 = 192 \/ ch1 = 193 THEN -1 ELSE 1)
    ELSE IF HiBits(ch1, 4) = 14 THEN 2
    ELSE IF HiBits(ch1, 6) = 60 \/ ch1 = 244 THEN 3
    ELSE -1

\* The offset of the first byte at or after offset q, and before offset
\* lim, that is no continuation byte (10xxxxxx); lim when there is none.
RECURSIVE BadCont(_, _, _)
BadCont(s, q, lim) ==
    IF q >= lim THEN lim
    ELSE IF HiBits(s[q + 1], 2) # 2 THEN q
    ELSE BadCont(s, q + 1, lim)

\* corpus_scan_utf8(&ptr, end) with ptr at offset p < Len(s): err = FALSE
\* and ptr past one well-formed unit run, or err = TRUE and ptr at the byte
\* where the scan gave up (never past the malformed run).
corpus_scan_utf8(s, p) ==
    LET ch1 == s[p + 1]
        nc  == ScanTail(ch1)
    IN  IF nc = 0 THEN [err |-> FALSE, ptr |-> p + 1]
        ELSE IF nc < 0 THEN [err |-> TRUE, ptr |-> p]
        ELSE IF p + 1 + nc > Len(s) THEN [err |-> TRUE, ptr |-> p]
        ELSE IF ~FirstContOk(ch1, s[p + 2]) THEN [err |-> TRUE, ptr |-> p + 1]
        ELSE LET bad == BadCont(s, p + 2, p + 1 + nc)
             IN  IF bad < p + 1 + nc THEN [err |-> TRUE, ptr |-> bad]
                 ELSE [err |-> FALSE, ptr |-> p + 1 + nc]

\* The payload bits of a lead byte that announces nc continuation bytes.
LeadBits(ch, nc) ==
    CASE nc = 0 -> ch
      [] nc = 1 -> LoBits(ch, 5)
      [] nc = 2 -> LoBits(ch, 4)
      [] OTHER  -> LoBits(ch, 3)

RECURSIVE DecodeTail(_, _, _, _)
\* code = (code << 6) + (ch & 0x3F) over nc continuation bytes from offset q.
DecodeTail(s, q, nc, code) ==
    IF nc = 0 THEN code
    ELSE DecodeTail(s, q + 1, nc - 1, code * 64 + LoBits(s[q + 1], 6))

\* The number of continuation bytes the decoder reads after lead byte ch.
\* It tests the lead's bits one by one (0x80, then 0x20, then 0x10), which
\* on the lead byte of a well-formed run is CORPUS_UTF8_TAIL_LEN(ch).
DecodeTailLen(ch) ==
    IF HiBits(ch, 1) = 0 THEN 0
    ELSE IF HiBits(ch, 3) % 2 = 0 THEN 1
    ELSE IF HiBits(ch, 4) % 2 = 0 THEN 2
    ELSE 3

\* corpus_decode_utf8(&ptr, &code) with ptr at offset p: reads the lead byte
\* and the continuation bytes it announces, without checking anything.  The
\* operator is defined when those bytes lie inside s.
corpus_decode_utf8(s, p) ==
    LET ch == s[p + 1]
        nc == DecodeTailLen(ch)
    IN  [code |-> DecodeTail(s, p + 1, nc, LeadBits(ch, nc)),
         ptr  |-> p + 1 + nc]

\* The width classes.
CORPUS_CHARWIDTH_OTHER     == "OTHER"
CORPUS_CHARWIDTH_EMOJI     == "EMOJI"
CORPUS_CHARWIDTH_AMBIGUOUS == "AMBIGUOUS"
CORPUS_CHARWIDTH_IGNORABLE == "IGNORABLE"
CORPUS_CHARWIDTH_NARROW    == "NARROW"
CORPUS_CHARWIDTH_WIDE      == "WIDE"

CharWidths ==
    { CORPUS_CHARWIDTH_OTHER, CORPUS_CHARWIDTH_EMOJI,
      CORPUS_CHARWIDTH_AMBIGUOUS, CORPUS_CHARWIDTH_IGNORABLE,
      CORPUS_CHARWIDTH_NARROW, CORPUS_CHARWIDTH_WIDE }

\* Latin-1 code points of East Asian width "ambiguous".
Latin1Ambiguous ==
    { 161, 164, 167, 168, 170, 174 } \cup (176 .. 180) \cup (182 .. 186)
    \cup (188 .. 191) \cup { 198, 208, 215, 216 } \cup (222 .. 225)
    \cup { 230 } \cup (232 .. 234) \cup { 236, 237, 240, 242, 243 }
    \cup (247 .. 250) \cup { 252, 254 }

\* corpus_unicode_charwidth(code): the classification table, given by the
\* ranges that the inputs of this model reach; a code point of no listed
\* range is unassigned or a control and classifies as OTHER.
corpus_unicode_charwidth(code) ==
    CASE code < 32 \/ (code >= 127 /\ code <= 159) -> CORPUS_CHARWIDTH_OTHER
      [] code >= 32 /\ code <= 126 -> CORPUS_CHARWIDTH_NARROW
      [] code = 173 -> CORPUS_CHARWIDTH_IGNORABLE
      [] code \in Latin1Ambiguous -> CORPUS_CHARWIDTH_AMBIGUOUS
      [] code >= 160 /\ code <= 255 /\ code # 173
           /\ code \notin Latin1Ambiguous -> CORPUS_CHARWIDTH_NARROW
      [] code >= 8192 /\ code <= 8202 -> CORPUS_CHARWIDTH_NARROW
      [] code >= 8203 /\ code <= 8207 -> CORPUS_CHARWIDTH_IGNORABLE
      [] code >= 19968 /\ code <= 40917 -> CORPUS_CHARWIDTH_WIDE
      [] code >= 127744 /\ code <= 128591 -> CORPUS_CHARWIDTH_EMOJI
      [] OTHER -> CORPUS_CHARWIDTH_OTHER


(***************************************************************************)
(* R strings and character vectors.                                        *)
(***************************************************************************)
\* The encoding marks getCharCE can return for the elements of the model.
CE_UTF8   == "CE_UTF8"
CE_BYTES  == "CE_BYTES"
CE_LATIN1 == "CE_LATIN1"
CE_NATIVE == "CE_NATIVE"

\* A CHARSXP: its encoding mark and its bytes.  NA_STRING is one more.
CharSxp(c, b) == [ce |-> c, bytes |-> b]
NA_STRING == [ce |-> "NA", bytes |-> << >>]

\* encodes_utf8(ce) of a build that is not for Windows.
encodes_utf8(c) == c \in { CE_BYTES, CE_UTF8, CE_NATIVE }

RECURSIVE Latin1ToUtf8(_)
\* The Latin-1 to UTF-8 conversion: a byte b >= 0x80 becomes the two bytes
\* 0xC0 | (b >> 6), 0x80 | (b & 0x3F).
Latin1ToUtf8(b) ==
    IF b = << >> THEN << >>
    ELSE (IF Head(b) < 128 THEN << Head(b) >>
          ELSE << 192 + (Head(b) \div 64), 128 + LoBits(Head(b), 6) >>)
         \o Latin1ToUtf8(Tail(b))

\* Whether every byte of b is ASCII.
IsAscii(b) == \A k \in 1 .. Len(b) : b[k] < 128

\* translateCharUTF8(sx) of a Latin-1 string: the string's own buffer when
\* it is ASCII (str2 == str), a converted copy otherwise.
translateCharUTF8(e) == IF IsAscii(e.bytes) THEN e.bytes ELSE Latin1ToUtf8(e.bytes)

\* The chunks input buffers are built from: 'A', '\n', ESC, a lone
\* continuation byte, U+0080 (a control), U+00E4 (narrow), U+00A1
\* (ambiguous), a truncated three-byte run, U+200C (ignorable), U+4E2D
\* (wide), U+1F300 (emoji), U+10FFFF (unassigned) and a surrogate.
Chunks ==
    { << 65 >>, << 10 >>, << 27 >>, << 128 >>, << 194, 128 >>, << 195, 164 >>,
      << 194, 161 >>, << 226, 128 >>, << 226, 128, 140 >>, << 228, 184, 173 >>,
      << 240, 159, 140, 128 >>, << 244, 143, 191, 191 >>, << 237, 160, 128 >> }

RECURSIVE Concat(_)
\* The buffers that are the concatenation of at most n chunks.
Concat(n) ==
    IF n = 0 THEN { << >> }
    ELSE LET prev == Concat(n - 1)
         IN  prev \cup { a \o c : a \in prev, c \in Chunks }

\* The input buffers: every concatenation of chunks and every single byte.
Inputs == Concat(MaxChunks) \cup { << b >> : b \in 1 .. 255 }

Elements == { CharSxp(c, b) : c \in { CE_UTF8, CE_BYTES, CE_LATIN1, CE_NATIVE },
                             b \in Inputs }

\* The elements of the longer vectors.
SmallElts ==
    { CharSxp(CE_UTF8, << 65 >>), CharSxp(CE_UTF8, << 10 >>),
      CharSxp(CE_UTF8, << 65, 226 >>), CharSxp(CE_BYTES, << 255, 255 >>),
      CharSxp(CE_LATIN1, << 233 >>), NA_STRING }

RECURSIVE SeqsUpTo(_, _)
\* The sequences over S of length at most n.
SeqsUpTo(S, n) ==
    IF n = 0 THEN { << >> }
    ELSE LET prev == SeqsUpTo(S, n - 1)
         IN  prev \cup { Append(v, e) : v \in prev, e \in S }

\* The character vectors the entry points are called with.
Vectors == { << e >> : e \in Elements } \cup SeqsUpTo(SmallElts, MaxN)

\* The SEXP arguments: R_NilValue, something that is no character vector,
\* and the character vectors.
Args ==
    { [type |-> "NILSXP", elts |-> << >>], [type |-> "INTSXP", elts |-> << >>] }
    \cup { [type |-> "STRSXP", elts |-> v] : v \in Vectors }

(***************************************************************************)
(* The state.                                                              *)
(***************************************************************************)
VARIABLES
    pc,       \* where the program is
    op,       \* the entry point that was called
    sx,       \* the argument vector
    display,  \* utf8_encode's display flag
    utf8,     \* utf8_encode's utf8 flag
    i,        \* the loop index of the entry point, 0-based
    ans,      \* the result vector
    duped,    \* whether ans is a duplicate of sx
    str,      \* the buffer the current walk reads
    ce,       \* the encoding of the current element
    conv,     \* charsxp_encode: whether str is a translated copy
    ptr,      \* the cursor of the current walk
    size,     \* the running total of a size estimator
    needs,    \* the needs flag of a size estimator
    size2,    \* charsxp_encode's size2, the size the estimator reported
    buf,      \* the bytes stored through dst by the running encoder
    dst,      \* the encoder's output cursor
    nbuf,     \* utf8_encode's recorded capacity of the scratch buffer
    nalloc,   \* the bytes R_alloc gave the scratch buffer (0: buf is NULL)
    valid,    \* is_valid's flag
    err,      \* the caller's err, which is_valid writes through errptr
    width,    \* charsxp_width's total
    fail      \* the error raised, if any

walk  == << str, ce, conv, ptr, size, needs, size2, valid, err, width >>
out   == << buf, dst >>
alloc == << nbuf, nalloc >>
call  == << op, sx, display, utf8 >>
vars  == << pc, op, sx, display, utf8, i, ans, duped, str, ce, conv, ptr,
            size, needs, size2, buf, dst, nbuf, nalloc, valid, err, width,
            fail >>

\* The value of an err that was never written.
Unwritten == -1

NoFail == [kind |-> "none", entry |-> 0, position |-> 0, byte |-> 0]

\* The walk variables outside a walk.
WalkReset ==
    /\ str' = << >>
    /\ ce' = "NA"
    /\ conv' = 0
    /\ ptr' = 0
    /\ size' = 0
    /\ needs' = 0
    /\ size2' = 0
    /\ valid' = 1
    /\ err' = Unwritten
    /\ width' = 0

Init ==
    /\ pc = "idle"
    /\ op = "none"
    /\ sx = << >>
    /\ display = FALSE
    /\ utf8 = FALSE
    /\ i = 0
    /\ ans = << >>
    /\ duped = FALSE
    /\ str = << >>
    /\ ce = "NA"
    /\ conv = 0
    /\ ptr = 0
    /\ size = 0
    /\ needs = 0
    /\ size2 = 0
    /\ buf = << >>
    /\ dst = 0
    /\ nbuf = 0
    /\ nalloc = 0
    /\ valid = 1
    /\ err = Unwritten
    /\ width = 0
    /\ fail = NoFail

\* An entry point is called with arg: R_NilValue is returned as it is, an
\* argument that is no character vector is an error, and otherwise the loop
\* over the elements starts at `loop`.
Enter(name, arg, loop, first) ==
    /\ pc = "idle"
    /\ op' = name
    /\ sx' = arg.elts
    /\ i' = 0
    /\ duped' = FALSE
    /\ IF arg.type = "NILSXP"
       THEN pc' = "done" /\ ans' = << >> /\ fail' = NoFail
       ELSE IF arg.type # "STRSXP"
       THEN /\ pc' = "error"
            /\ ans' = << >>
            /\ fail' = [NoFail EXCEPT !.kind = "not a character vector"]
       ELSE pc' = loop /\ ans' = first /\ fail' = NoFail
    /\ UNCHANGED << walk, out, alloc >>

(***************************************************************************)
(* is_valid, utf8_coerce and utf8_valid.                                   *)
(***************************************************************************)
\* One iteration of is_valid's loop with the cursor at offset p: the scan
\* moves the cursor; when it fails, err is the offset the iteration started
\* at and the loop is left (goto out).
is_valid_body_gaveup(s, p) ==
    LET r == corpus_scan_utf8(s, p)
    IN  [ptr |-> r.ptr, valid |-> IF r.err THEN 0 ELSE 1,
         err |-> IF r.err THEN r.ptr ELSE Unwritten]

is_valid_body(s, p) ==
    LET r == corpus_scan_utf8(s, p)
    IN  [ptr |-> r.ptr, valid |-> IF r.err THEN 0 ELSE 1,
         err |-> IF r.err THEN p ELSE Unwritten]

\* is_valid has left its loop: the cursor is at the end or a scan failed.
IsValidReturned == pc = "is_valid" /\ (ptr = Len(str) \/ valid = 0)

is_valid ==
    /\ pc = "is_valid"
    /\ valid = 1
    /\ ptr # Len(str)
    /\ LET r == is_valid_body(str, ptr)
       IN  /\ ptr' = r.ptr
           /\ valid' = r.valid
           /\ err' = r.err
    /\ UNCHANGED << pc, call, i, ans, duped, str, ce, conv, size, needs,
                    size2, width, out, alloc, fail >>

utf8_coerce_call ==
    /\ pc = "idle"
    /\ \E arg \in Args : Enter("utf8_coerce", arg, "coerce_loop", arg.elts)
    /\ UNCHANGED << display, utf8 >>

\* The head of utf8_coerce's loop: NA_STRING is skipped, another element
\* has its bytes (translated unless the encoding holds UTF-8) validated.
utf8_coerce_elt ==
    /\ pc = "coerce_loop"
    /\ i < Len(sx)
    /\ LET sstr == sx[i + 1]
       IN  IF sstr = NA_STRING
           THEN /\ i' = i + 1
                /\ UNCHANGED << pc, walk >>
           ELSE /\ pc' = "is_valid"
                /\ ce' = sstr.ce
                /\ str' = IF encodes_utf8(sstr.ce) THEN sstr.bytes
                          ELSE translateCharUTF8(sstr)
                /\ ptr' = 0
                /\ valid' = 1
                /\ err' = Unwritten
                /\ UNCHANGED << i, conv, size, needs, size2, width >>
    /\ UNCHANGED << call, ans, duped, out, alloc, fail >>

\* The error utf8_coerce raises for element i whose byte at offset e is
\* invalid.  The third message passes its arguments out of step with its
\* format, so what it prints for the entry and the position is arbitrary.
CoerceErrors_zero_based(c, idx, e, s) ==
    IF c = CE_BYTES
    THEN { [kind |-> "bytes", entry |-> idx, position |-> e + 1, byte |-> s[e + 1]] }
    ELSE IF encodes_utf8(c)
    THEN { [kind |-> "marked", entry |-> idx, position |-> e + 1, byte |-> s[e + 1]] }
    ELSE { [kind |-> "translated", entry |-> x, position |-> y, byte |-> 0] :
             x \in 0 .. Len(s), y \in 0 .. Len(s) }

CoerceErrors(c, idx, e, s) ==
    IF c = CE_BYTES
    THEN { [kind |-> "bytes", entry |-> idx + 1, position |-> e + 1, byte |-> s[e + 1]] }
    ELSE IF encodes_utf8(c)
    THEN { [kind |-> "marked", entry |-> idx + 1, position |-> e + 1, byte |-> s[e + 1]] }
    ELSE { [kind |-> "translated", entry |-> x, position |-> y, byte |-> 0] :
             x \in 0 .. Len(s), y \in 0 .. Len(s) }

\* After is_valid: an invalid element is a fatal error; a valid one whose
\* mark is not UTF-8 is replaced, in a duplicate of sx, by a UTF-8 string.
utf8_coerce_check ==
    /\ op = "utf8_coerce"
    /\ IsValidReturned
    /\ IF valid = 0
       THEN /\ pc' = "error"
            /\ fail' \in CoerceErrors(ce, i, err, str)
            /\ UNCHANGED << i, ans, duped, walk >>
       ELSE /\ pc' = "coerce_loop"
            /\ i' = i + 1
            /\ fail' = NoFail
            /\ IF ~encodes_utf8(ce) \/ ce = CE_BYTES \/ ce = CE_NATIVE
               THEN /\ duped' = TRUE
                    /\ ans' = [ans EXCEPT ![i + 1] = CharSxp(CE_UTF8, str)]
               ELSE UNCHANGED << ans, duped >>
            /\ WalkReset
    /\ UNCHANGED << call, out, alloc >>

utf8_coerce_return ==
    /\ pc = "coerce_loop"
    /\ i >= Len(sx)
    /\ pc' = "done"
    /\ UNCHANGED << call, i, ans, duped, walk, out, alloc, fail >>

utf8_valid_call ==
    /\ pc = "idle"
    /\ \E arg \in Args :
          Enter("utf8_valid", arg, "valid_loop", [k \in 1 .. Len(arg.elts) |-> "unset"])
    /\ UNCHANGED << display, utf8 >>

\* The head of utf8_valid's loop.
utf8_valid_elt ==
    /\ pc = "valid_loop"
    /\ i < Len(sx)
    /\ LET sstr == sx[i + 1]
       IN  IF sstr = NA_STRING
           THEN /\ ans' = [ans EXCEPT ![i + 1] = "NA_LOGICAL"]
                /\ i' = i + 1
                /\ UNCHANGED << pc, walk >>
           ELSE /\ pc' = "is_valid"
                /\ ce' = sstr.ce
                /\ str' = IF encodes_utf8(sstr.ce) THEN sstr.bytes
                          ELSE translateCharUTF8(sstr)
                /\ ptr' = 0
                /\ valid' = 1
                /\ err' = Unwritten
                /\ UNCHANGED << i, ans, conv, size, needs, size2, width >>
    /\ UNCHANGED << call, duped, out, alloc, fail >>

\* LOGICAL(ans)[i] = is_valid(...) ? TRUE : FALSE.
utf8_valid_store ==
    /\ op = "utf8_valid"
    /\ IsValidReturned
    /\ ans' = [ans EXCEPT ![i + 1] = IF valid = 1 THEN "TRUE" ELSE "FALSE"]
    /\ i' = i + 1
    /\ pc' = "valid_loop"
    /\ WalkReset
    /\ UNCHANGED << call, duped, out, alloc, fail >>

utf8_valid_return ==
    /\ pc = "valid_loop"
    /\ i >= Len(sx)
    /\ pc' = "done"
    /\ UNCHANGED << call, i, ans, duped, walk, out, alloc, fail >>

(***************************************************************************)
(* The size estimators.                                                    *)
(***************************************************************************)
\* A C int: the value of x in two's complement of the model's width.
WrapInt(x) == ((x + INT_MAX + 1) % (2 * (INT_MAX + 1))) - (INT_MAX + 1)

\* The control characters with a shorthand escape: \a \b \t \n \v \f \r.
IsShorthand(code) == code \in 7 .. 13

\* The letter of a shorthand escape.
ShorthandLetter(code) ==
    CASE code = 7  -> 97
      [] code = 8  -> 98
      [] code = 12 -> 102
      [] code = 10 -> 110
      [] code = 13 -> 114
      [] code = 9  -> 116
      [] code = 11 -> 118

\* The overflow guard and the addition that end each iteration of a size
\* estimator: error(...) when size > INT_MAX - nbyte, else size += nbyte.
size_add_unguarded(sz, nbyte) == [error |-> FALSE, size |-> WrapInt(sz + nbyte)]

size_add(sz, nbyte) ==
    IF sz > INT_MAX - nbyte THEN [error |-> TRUE, size |-> sz]
    ELSE [error |-> FALSE, size |-> WrapInt(sz + nbyte)]

\* needs_encode_chars, one iteration up to the guard, with the cursor at
\* offset p and the flag at nd: the cursor, the flag and nbyte after it.
needs_encode_chars_unit_noprint(s, p, nd, disp, u8) ==
    LET nbyte == 1 + CORPUS_UTF8_TAIL_LEN(s[p + 1])
    IN  IF corpus_scan_utf8(s, p).err
        THEN [ptr |-> p + 1, needs |-> 1, nbyte |-> 4]
        ELSE IF nbyte = 1
        THEN LET code == s[p + 1]
             IN  IF IsShorthand(code)
                 THEN [ptr |-> p + 1, needs |-> 1, nbyte |-> 2]
                 ELSE IF isprint(code)
                 THEN [ptr |-> p + 1, needs |-> 1, nbyte |-> 4]
                 ELSE [ptr |-> p + 1, needs |-> nd, nbyte |-> 1]
        ELSE LET d  == corpus_decode_utf8(s, p)
                 cw == corpus_unicode_charwidth(d.code)
                 nesc == IF d.code <= 65535 THEN 6 ELSE 10
             IN  IF u8
                 THEN CASE cw = CORPUS_CHARWIDTH_OTHER ->
                             [ptr |-> d.ptr, needs |-> 1, nbyte |-> nesc]
                        [] cw = CORPUS_CHARWIDTH_IGNORABLE ->
                             IF disp
                             THEN [ptr |-> d.ptr, needs |-> 1, nbyte |-> 0]
                             ELSE [ptr |-> d.ptr, needs |-> nd, nbyte |-> nbyte]
                        [] cw = CORPUS_CHARWIDTH_EMOJI ->
                             IF disp
                             THEN [ptr |-> d.ptr, needs |-> 1,
                                   nbyte |-> nbyte + ZWSP_NBYTE]
                             ELSE [ptr |-> d.ptr, needs |-> nd, nbyte |-> nbyte]
                        [] OTHER ->
                             [ptr |-> d.ptr, needs |-> 0, nbyte |-> nbyte]
                 ELSE [ptr |-> d.ptr, needs |-> 1, nbyte |-> nesc]

needs_encode_chars_unit(s, p, nd, disp, u8) ==
    LET nbyte == 1 + CORPUS_UTF8_TAIL_LEN(s[p + 1])
    IN  IF corpus_scan_utf8(s, p).err
        THEN [ptr |-> p + 1, needs |-> 1, nbyte |-> 4]
        ELSE IF nbyte = 1
        THEN LET code == s[p + 1]
             IN  IF IsShorthand(code)
                 THEN [ptr |-> p + 1, needs |-> 1, nbyte |-> 2]
                 ELSE IF ~isprint(code)
                 THEN [ptr |-> p + 1, needs |-> 1, nbyte |-> 4]
                 ELSE [ptr |-> p + 1, needs |-> nd, nbyte |-> 1]
        ELSE LET d  == corpus_decode_utf8(s, p)
                 cw == corpus_unicode_charwidth(d.code)
                 nesc == IF d.code <= 65535 THEN 6 ELSE 10
             IN  IF u8
                 THEN CASE cw = CORPUS_CHARWIDTH_OTHER ->
                             [ptr |-> d.ptr, needs |-> 1, nbyte |-> nesc]
                        [] cw = CORPUS_CHARWIDTH_IGNORABLE ->
                             IF disp
                             THEN [ptr |-> d.ptr, needs |-> 1, nbyte |-> 0]
                             ELSE [ptr |-> d.ptr, needs |-> nd, nbyte |-> nbyte]
                        [] cw = CORPUS_CHARWIDTH_EMOJI ->
                             IF disp
                             THEN [ptr |-> d.ptr, needs |-> 1,
                                   nbyte |-> nbyte + ZWSP_NBYTE]
                             ELSE [ptr |-> d.ptr, needs |-> nd, nbyte |-> nbyte]
                        [] OTHER ->
                             [ptr |-> d.ptr, needs |-> 0, nbyte |-> nbyte]
                 ELSE [ptr |-> d.ptr, needs |-> 1, nbyte |-> nesc]

\* needs_encode_bytes, one iteration up to the guard.
needs_encode_bytes_unit(s, p, nd) ==
    LET code == s[p + 1]
    IN  IF IsShorthand(code)
        THEN [ptr |-> p + 1, needs |-> 1, nbyte |-> 2]
        ELSE IF code < 128 /\ isprint(code)
        THEN [ptr |-> p + 1, needs |-> nd, nbyte |-> 1]
        ELSE [ptr |-> p + 1, needs |-> 1, nbyte |-> 4]

SizeOverflow(idx) ==
    [kind |-> "size overflow", entry |-> idx + 1, position |-> 0, byte |-> 0]

\* One iteration of a size estimator whose unit is u.
NeedsIter(u) ==
    LET a == size_add(size, u.nbyte)
    IN  /\ ptr' = u.ptr
        /\ needs' = u.needs
        /\ size' = a.size
        /\ IF a.error
           THEN pc' = "error" /\ fail' = SizeOverflow(i)
           ELSE UNCHANGED << pc, fail >>
        /\ UNCHANGED << call, i, ans, duped, str, ce, conv, size2, valid, err,
                        width, out, alloc >>

needs_encode_chars ==
    /\ pc = "needs_encode_chars"
    /\ ptr # Len(str)
    /\ NeedsIter(needs_encode_chars_unit(str, ptr, needs, display, utf8))

needs_encode_bytes ==
    /\ pc = "needs_encode_bytes"
    /\ ptr # Len(str)
    /\ NeedsIter(needs_encode_bytes_unit(str, ptr, needs))

(***************************************************************************)
(* The encoders.                                                           *)
(***************************************************************************)
\* The buffer b after the bytes w are stored from offset d on.  The encoder
\* stores at its cursor, which is never past the bytes stored so far.
Store(b, d, w) ==
    SubSeq(b, 1, d) \o w \o SubSeq(b, d + Len(w) + 1, Len(b))

\* One iteration of encode_bytes with the source cursor at p, the bytes
\* stored so far b and the output cursor d.
encode_bytes_body(s, p, b, d) ==
    LET code == s[p + 1]
    IN  IF IsShorthand(code)
        THEN [ptr |-> p + 1, buf |-> Store(b, d, << 92, ShorthandLetter(code) >>),
              dst |-> d + 2]
        ELSE IF code < 128 /\ isprint(code)
        THEN [ptr |-> p + 1, buf |-> Store(b, d, << code >>), dst |-> d + 1]
        ELSE [ptr |-> p + 1, buf |-> Store(b, d, sprintf_x(code)), dst |-> d + 4]

\* One iteration of encode_chars.
encode_chars_body_nopad(s, p, b, d, disp, u8) ==
    IF corpus_scan_utf8(s, p).err \/ CORPUS_UTF8_TAIL_LEN(s[p + 1]) = 0
    THEN encode_bytes_body(s, p, b, d)
    ELSE LET dc == corpus_decode_utf8(s, p)
             cw == corpus_unicode_charwidth(dc.code)
         IN  IF cw = CORPUS_CHARWIDTH_OTHER \/ ~u8
             THEN IF dc.code <= 65535
                  THEN [ptr |-> dc.ptr, buf |-> Store(b, d, sprintf_u(dc.code)),
                        dst |-> d + 6]
                  ELSE [ptr |-> dc.ptr, buf |-> Store(b, d, sprintf_U(dc.code)),
                        dst |-> d + 10]
             ELSE IF cw = CORPUS_CHARWIDTH_IGNORABLE /\ disp
             THEN [ptr |-> dc.ptr, buf |-> b, dst |-> d]
             ELSE [ptr |-> dc.ptr, buf |-> Store(b, d, SubSeq(s, p + 1, dc.ptr)),
                   dst |-> d + (dc.ptr - p)]

encode_chars_body(s, p, b, d, disp, u8) ==
    IF corpus_scan_utf8(s, p).err
    THEN [ptr |-> p + 1, buf |-> Store(b, d, sprintf_x(s[p + 1])), dst |-> d + 4]
    ELSE LET nbyte == 1 + CORPUS_UTF8_TAIL_LEN(s[p + 1])
         IN  IF nbyte = 1
             THEN LET code == s[p + 1]
                  IN  IF IsShorthand(code)
                      THEN [ptr |-> p + 1,
                            buf |-> Store(b, d, << 92, ShorthandLetter(code) >>),
                            dst |-> d + 2]
                      ELSE IF ~isprint(code)
                      THEN [ptr |-> p + 1, buf |-> Store(b, d, sprintf_x(code)),
                            dst |-> d + 4]
                      ELSE [ptr |-> p + 1, buf |-> Store(b, d, << code >>),
                            dst |-> d + 1]
             ELSE LET dc == corpus_decode_utf8(s, p)
                      cw == corpus_unicode_charwidth(dc.code)
                      copied == Store(b, d, SubSeq(s, p + 1, p + nbyte))
                  IN  IF cw = CORPUS_CHARWIDTH_OTHER \/ ~u8
                      THEN IF dc.code <= 65535
                           THEN [ptr |-> dc.ptr,
                                 buf |-> Store(b, d, sprintf_u(dc.code)),
                                 dst |-> d + 6]
                           ELSE [ptr |-> dc.ptr,
                                 buf |-> Store(b, d, sprintf_U(dc.code)),
                                 dst |-> d + 10]
                      ELSE IF cw = CORPUS_CHARWIDTH_IGNORABLE /\ disp
                      THEN [ptr |-> dc.ptr, buf |-> b, dst |-> d]
                      ELSE IF cw = CORPUS_CHARWIDTH_EMOJI /\ disp
                      THEN [ptr |-> dc.ptr,
                            buf |-> Store(copied, d + nbyte, ZWSP),
                            dst |-> d + nbyte + ZWSP_NBYTE]
                      ELSE [ptr |-> dc.ptr, buf |-> copied, dst |-> d + nbyte]

\* One iteration of an encoder whose result is r.
EncodeIter(r) ==
    /\ ptr' = r.ptr
    /\ buf' = r.buf
    /\ dst' = r.dst
    /\ UNCHANGED << pc, call, i, ans, duped, str, ce, conv, size, needs, size2,
                    valid, err, width, alloc, fail >>

encode_chars ==
    /\ pc = "encode_chars"
    /\ ptr # Len(str)
    /\ EncodeIter(encode_chars_body(str, ptr, buf, dst, display, utf8))

encode_bytes ==
    /\ pc = "encode_bytes"
    /\ ptr # Len(str)
    /\ EncodeIter(encode_bytes_body(str, ptr, buf, dst))

(***************************************************************************)
(* charsxp_encode and utf8_encode.                                         *)
(***************************************************************************)
\* corpus_array_size_add(&nbuf, 1, count, nadd): the capacities it may set
\* for room for count + nadd items.  Only that the new capacity is at least
\* count + nadd is assumed; how far the library rounds it up is left open.
corpus_array_size_add(count, nadd) ==
    (count + nadd) .. (count + nadd + MaxSlack)

utf8_encode_call ==
    /\ pc = "idle"
    /\ \E arg \in Args : Enter("utf8_encode", arg, "encode_loop", arg.elts)
    /\ display' \in BOOLEAN
    /\ utf8' \in BOOLEAN

\* SET_STRING_ELT(ans, i, elt2) of utf8_encode's loop, after the duplication
\* of ans when elt2 is not elt.
StoreElt(elt2) ==
    /\ duped' = (duped \/ sx[i + 1] # elt2)
    /\ ans' = [ans EXCEPT ![i + 1] = elt2]
    /\ i' = i + 1
    /\ pc' = "encode_loop"

\* The head of utf8_encode's loop and charsxp_encode up to the call of the
\* size estimator: NA_STRING is returned as it is; a string whose encoding
\* does not hold UTF-8 is translated.
utf8_encode_elt ==
    /\ pc = "encode_loop"
    /\ i < Len(sx)
    /\ LET elt == sx[i + 1]
       IN  IF elt = NA_STRING
           THEN StoreElt(NA_STRING) /\ UNCHANGED walk
           ELSE /\ IF encodes_utf8(elt.ce)
                   THEN str' = elt.bytes /\ ce' = elt.ce /\ conv' = 0
                   ELSE /\ str' = translateCharUTF8(elt)
                        /\ ce' = CE_UTF8
                        /\ conv' = IF translateCharUTF8(elt) # elt.bytes THEN 1 ELSE 0
                /\ pc' = IF elt.ce = CE_BYTES THEN "needs_encode_bytes"
                         ELSE "needs_encode_chars"
                /\ ptr' = 0
                /\ size' = 0
                /\ needs' = 0
                /\ UNCHANGED << i, ans, duped, size2, valid, err, width >>
    /\ UNCHANGED << call, out, alloc, fail >>

\* The size estimator has left its loop and returns needs and *sizeptr.
NeedsReturned ==
    pc \in { "needs_encode_chars", "needs_encode_bytes" } /\ ptr = Len(str)

\* charsxp_encode after the size estimator: without a transform the element
\* (or its translation) is returned; otherwise the scratch buffer is grown
\* when size2 > nbuf and the encoder starts.
charsxp_encode_sized ==
    /\ NeedsReturned
    /\ IF needs = 0
       THEN /\ StoreElt(IF conv = 1 THEN CharSxp(CE_UTF8, str) ELSE sx[i + 1])
            /\ WalkReset
            /\ UNCHANGED << out, alloc >>
       ELSE /\ size2' = size
            /\ size' = 0
            /\ IF size > nbuf
               THEN /\ nbuf' \in corpus_array_size_add(0, size)
                    /\ nalloc' = size
               ELSE UNCHANGED alloc
            /\ pc' = IF ce = CE_BYTES THEN "encode_bytes" ELSE "encode_chars"
            /\ ptr' = 0
            /\ buf' = << >>
            /\ dst' = 0
            /\ UNCHANGED << i, ans, duped, str, ce, conv, needs, valid, err,
                            width >>
    /\ UNCHANGED << call, fail >>

\* The encoder has left its loop.
EncodeReturned ==
    pc \in { "encode_chars", "encode_bytes" } /\ ptr = Len(str)

\* return mkCharLenCE(buf, size2, CE_UTF8), and the store into ans.
charsxp_encode_return ==
    /\ EncodeReturned
    /\ StoreElt(CharSxp(CE_UTF8, SubSeq(buf, 1, size2)))
    /\ WalkReset
    /\ buf' = << >>
    /\ dst' = 0
    /\ UNCHANGED << call, alloc, fail >>

utf8_encode_return ==
    /\ pc = "encode_loop"
    /\ i >= Len(sx)
    /\ pc' = "done"
    /\ UNCHANGED << call, i, ans, duped, walk, out, alloc, fail >>

(***************************************************************************)
(* charsxp_width and utf8_width.                                           *)
(***************************************************************************)
\* One iteration of charsxp_width's loop with the cursor at offset p and the
\* total at w, when the bytes the decoder reads lie inside the buffer.
charsxp_width_body_narrow_emoji(s, p, w) ==
    LET d  == corpus_decode_utf8(s, p)
        cw == corpus_unicode_charwidth(d.code)
    IN  [ptr |-> d.ptr,
         width |-> IF cw = CORPUS_CHARWIDTH_WIDE THEN w + 2
                   ELSE IF cw \in { CORPUS_CHARWIDTH_NARROW,
                                    CORPUS_CHARWIDTH_AMBIGUOUS,
                                    CORPUS_CHARWIDTH_EMOJI } THEN w + 1
                   ELSE w]

charsxp_width_body(s, p, w) ==
    LET d  == corpus_decode_utf8(s, p)
        cw == corpus_unicode_charwidth(d.code)
    IN  [ptr |-> d.ptr,
         width |-> CASE cw \in { CORPUS_CHARWIDTH_NARROW,
                                 CORPUS_CHARWIDTH_AMBIGUOUS } -> w + 1
                     [] cw \in { CORPUS_CHARWIDTH_WIDE,
                                 CORPUS_CHARWIDTH_EMOJI } -> w + 2
                     [] OTHER -> w]

\* Whether the decoder, started at offset p, reads only bytes of s.
DecodeInside(s, p) == p + 1 + DecodeTailLen(s[p + 1]) <= Len(s)

charsxp_width ==
    /\ pc = "charsxp_width"
    /\ ptr < Len(str)
    /\ DecodeInside(str, ptr)
    /\ LET r == charsxp_width_body(str, ptr, width)
       IN  ptr' = r.ptr /\ width' = r.width
    /\ UNCHANGED << pc, call, i, ans, duped, str, ce, conv, size, needs, size2,
                    valid, err, out, alloc, fail >>

\* An iteration whose lead byte announces more continuation bytes than the
\* buffer holds: the decoder reads past the end, the code point it returns
\* depends on memory that is not the string's, and the cursor lands past
\* end.
charsxp_width_overrun ==
    /\ pc = "charsxp_width"
    /\ ptr < Len(str)
    /\ ~DecodeInside(str, ptr)
    /\ ptr' = ptr + 1 + DecodeTailLen(str[ptr + 1])
    /\ width' \in { width, width + 1, width + 2 }
    /\ UNCHANGED << pc, call, i, ans, duped, str, ce, conv, size, needs, size2,
                    valid, err, out, alloc, fail >>

\* With the cursor past end the test ptr != end never fails again: the loop
\* goes on through memory that is not the string's until the process
\* faults.
charsxp_width_wild ==
    /\ pc = "charsxp_width"
    /\ ptr > Len(str)
    /\ pc' = "crashed"
    /\ UNCHANGED << call, i, ans, duped, walk, out, alloc, fail >>

utf8_width_call ==
    /\ pc = "idle"
    /\ \E arg \in Args :
          Enter("utf8_width", arg, "width_loop", [k \in 1 .. Len(arg.elts) |-> 0])
    /\ UNCHANGED << display, utf8 >>

\* NA_INTEGER, a value that no width has.
NA_INTEGER == -1

\* The head of utf8_width's loop: the width of NA_STRING is NA_INTEGER,
\* another element is handed to charsxp_width as it is.
utf8_width_elt ==
    /\ pc = "width_loop"
    /\ i < Len(sx)
    /\ LET elt == sx[i + 1]
       IN  IF elt = NA_STRING
           THEN /\ ans' = [ans EXCEPT ![i + 1] = NA_INTEGER]
                /\ i' = i + 1
                /\ UNCHANGED << pc, walk >>
           ELSE /\ pc' = "charsxp_width"
                /\ str' = elt.bytes
                /\ ce' = elt.ce
                /\ ptr' = 0
                /\ width' = 0
                /\ UNCHANGED << i, ans, conv, size, needs, size2, valid, err >>
    /\ UNCHANGED << call, duped, out, alloc, fail >>

\* charsxp_width has left its loop and returns width.
WidthReturned == pc = "charsxp_width" /\ ptr = Len(str)

utf8_width_store ==
    /\ WidthReturned
    /\ ans' = [ans EXCEPT ![i + 1] = width]
    /\ i' = i + 1
    /\ pc' = "width_loop"
    /\ WalkReset
    /\ UNCHANGED << call, duped, out, alloc, fail >>

utf8_width_return ==
    /\ pc = "width_loop"
    /\ i >= Len(sx)
    /\ pc' = "done"
    /\ UNCHANGED << call, i, ans, duped, walk, out, alloc, fail >>

Next ==
    \/ utf8_coerce_call
    \/ utf8_coerce_elt
    \/ is_valid
    \/ utf8_coerce_check
    \/ utf8_coerce_return
    \/ utf8_valid_call
    \/ utf8_valid_elt
    \/ utf8_valid_store
    \/ utf8_valid_return
    \/ utf8_encode_call
    \/ utf8_encode_elt
    \/ needs_encode_chars
    \/ needs_encode_bytes
    \/ charsxp_encode_sized
    \/ encode_chars
    \/ encode_bytes
    \/ charsxp_encode_return
    \/ utf8_encode_return
    \/ utf8_width_call
    \/ utf8_width_elt
    \/ charsxp_width
    \/ charsxp_width_overrun
    \/ charsxp_width_wild
    \/ utf8_width_store
    \/ utf8_width_return

Spec == Init /\ [][Next]_vars

(***************************************************************************)
(* What the claims speak of, stated from the UTF-8 standard and the        *)
(* escape table rather than from the walks above.                          *)
(***************************************************************************)
\* Whether the k-th byte of the run that starts at offset p exists and lies
\* in lo .. hi.
ByteIn(s, p, k, lo, hi) == p + k <= Len(s) /\ s[p + k] >= lo /\ s[p + k] <= hi

\* The length of the well-formed unit run at offset p (Unicode's table of
\* well-formed UTF-8 byte sequences), 0 when there is none.
WellFormedLen(s, p) ==
    LET b1 == s[p + 1]
        t2 == ByteIn(s, p, 2, 128, 191)
        t3 == ByteIn(s, p, 3, 128, 191)
        t4 == ByteIn(s, p, 4, 128, 191)
    IN  CASE b1 <= 127 -> 1
          [] b1 >= 194 /\ b1 <= 223 /\ t2 -> 2
          [] b1 = 224 /\ ByteIn(s, p, 2, 160, 191) /\ t3 -> 3
          [] b1 >= 225 /\ b1 <= 236 /\ t2 /\ t3 -> 3
          [] b1 = 237 /\ ByteIn(s, p, 2, 128, 159) /\ t3 -> 3
          [] b1 >= 238 /\ b1 <= 239 /\ t2 /\ t3 -> 3
          [] b1 = 240 /\ ByteIn(s, p, 2, 144, 191) /\ t3 /\ t4 -> 4
          [] b1 >= 241 /\ b1 <= 243 /\ t2 /\ t3 /\ t4 -> 4
          [] b1 = 244 /\ ByteIn(s, p, 2, 128, 143) /\ t3 /\ t4 -> 4
          [] OTHER -> 0

RECURSIVE FirstMalformed(_, _)
\* The offset of the first byte of the first malformed unit run at or after
\* offset p, -1 when every unit run up to the end is well-formed.
FirstMalformed(s, p) ==
    IF p >= Len(s) THEN -1
    ELSE IF WellFormedLen(s, p) = 0 THEN p
    ELSE FirstMalformed(s, p + WellFormedLen(s, p))

ValidUtf8(s) == FirstMalformed(s, 0) = -1

\* The code point of the well-formed unit run of n bytes at offset p.
CodePoint(s, p, n) ==
    CASE n = 1 -> s[p + 1]
      [] n = 2 -> (s[p + 1] - 192) * 64 + (s[p + 2] - 128)
      [] n = 3 -> (s[p + 1] - 224) * 4096 + (s[p + 2] - 128) * 64
                  + (s[p + 3] - 128)
      [] n = 4 -> (s[p + 1] - 240) * 262144 + (s[p + 2] - 128) * 4096
                  + (s[p + 3] - 128) * 64 + (s[p + 4] - 128)

HexLower == << 48, 49, 50, 51, 52, 53, 54, 55, 56, 57, 97, 98, 99, 100, 101, 102 >>

\* v as exactly w lowercase hexadecimal digits.
Hex(v, w) == [k \in 1 .. w |-> HexLower[((v \div (16 ^ (w - k))) % 16) + 1]]

\* The letters of the seven control shorthands: \a \b \t \n \v \f \r.
ShorthandTable == [c \in 7 .. 13 |-> << 97, 98, 116, 110, 118, 102, 114 >>[c - 6]]

\* The escape category of the unit run at offset p.
Category(s, p, disp, u8) ==
    LET n == WellFormedLen(s, p)
    IN  IF n = 0 THEN "INVALID"
        ELSE IF n = 1
        THEN (IF s[p + 1] \in DOMAIN ShorthandTable THEN "SHORTHAND"
              ELSE IF s[p + 1] < 32 \/ s[p + 1] = 127 THEN "HEX"
              ELSE "PASSTHROUGH")
        ELSE LET cw == corpus_unicode_charwidth(CodePoint(s, p, n))
             IN  IF ~u8 \/ cw = "OTHER" THEN "NUMERIC"
                 ELSE IF cw = "IGNORABLE" /\ disp THEN "DROP"
                 ELSE IF cw = "EMOJI" /\ disp THEN "PAD"
                 ELSE "PASSTHROUGH"

\* The number of source bytes of the unit run at offset p: an invalid byte
\* is a run of its own.
UnitLen(s, p) == IF WellFormedLen(s, p) = 0 THEN 1 ELSE WellFormedLen(s, p)

\* The escaped form of the unit run at offset p.
EscapedUnit(s, p, disp, u8) ==
    LET n   == UnitLen(s, p)
        cat == Category(s, p, disp, u8)
        raw == SubSeq(s, p + 1, p + n)
    IN  CASE cat = "SHORTHAND" -> << 92, ShorthandTable[s[p + 1]] >>
          [] cat \in { "HEX", "INVALID" } -> << 92, 120 >> \o Hex(s[p + 1], 2)
          [] cat = "NUMERIC" ->
               IF CodePoint(s, p, n) <= 65535
               THEN << 92, 117 >> \o Hex(CodePoint(s, p, n), 4)
               ELSE << 92, 85 >> \o Hex(CodePoint(s, p, n), 8)
          [] cat = "DROP" -> << >>
          [] cat = "PAD" -> raw \o << 226, 128, 139 >>
          [] cat = "PASSTHROUGH" -> raw

RECURSIVE EscapedFrom(_, _, _, _)
\* The concatenation of the escaped forms of the unit runs from offset p on.
EscapedFrom(s, p, disp, u8) ==
    IF p >= Len(s) THEN << >>
    ELSE EscapedUnit(s, p, disp, u8) \o EscapedFrom(s, p + UnitLen(s, p), disp, u8)

EscapedForm(s, disp, u8) == EscapedFrom(s, 0, disp, u8)

RECURSIVE Triggers(_, _, _, _)
\* Whether some unit run from offset p on triggers a transform.
Triggers(s, p, disp, u8) ==
    /\ p < Len(s)
    /\ \/ Category(s, p, disp, u8) # "PASSTHROUGH"
       \/ Triggers(s, p + UnitLen(s, p), disp, u8)

RECURSIVE EscapedBytes(_)
\* The escaped form of a "bytes" string: byte by byte.
EscapedBytes(s) ==
    IF s = << >> THEN << >>
    ELSE (IF Head(s) \in DOMAIN ShorthandTable
          THEN << 92, ShorthandTable[Head(s)] >>
          ELSE IF Head(s) >= 32 /\ Head(s) <= 126 THEN << Head(s) >>
          ELSE << 92, 120 >> \o Hex(Head(s), 2))
         \o EscapedBytes(Tail(s))

\* The columns of a width class.
ClassWidth(cw) ==
    CASE cw \in { "NARROW", "AMBIGUOUS" } -> 1
      [] cw \in { "WIDE", "EMOJI" } -> 2
      [] cw \in { "IGNORABLE", "OTHER" } -> 0

RECURSIVE ExpectedWidth(_, _)
\* The sum of the class widths of the code points of valid s from offset p.
ExpectedWidth(s, p) ==
    IF p >= Len(s) THEN 0
    ELSE LET n == WellFormedLen(s, p)
         IN  ClassWidth(corpus_unicode_charwidth(CodePoint(s, p, n)))
             + ExpectedWidth(s, p + n)

\* The bytes an entry point examines for element e.
ExaminedBytes(e) == IF encodes_utf8(e.ce) THEN e.bytes ELSE translateCharUTF8(e)

PrintableAscii(b) == \A k \in 1 .. Len(b) : b[k] >= 32 /\ b[k] <= 126

InEstimator == pc \in { "needs_encode_chars", "needs_encode_bytes" }
InEncoder == pc \in { "encode_chars", "encode_bytes" }

(***************************************************************************)
(* The claims.                                                             *)
(***************************************************************************)
\* C1: dual-pass agreement.  When an encoder returns, it has stored to
\* exactly the offsets 0 .. N-1 of dst, N being the size its estimator
\* reported for the same input and flags, and to no offset >= N.
C1_DualPassAgreement ==
    EncodeReturned => (Len(buf) = size2 /\ dst = size2)

\* C2: needs_encode_chars returns 0 if and only if no unit run of its input
\* triggers a transform, whatever unit runs come after the one that does.
C2_NeedsIffTransform ==
    (pc = "needs_encode_chars" /\ ptr = Len(str))
        => ((needs = 0) <=> ~Triggers(str, 0, display, utf8))

\* C3: escape exactness.  At every iteration of encode_chars, and so when
\* it returns, the bytes it has produced are the concatenation, unit run by
\* unit run in input order, of the escaped forms of the unit runs read.
C3_EscapeExactness ==
    pc = "encode_chars"
        => SubSeq(buf, 1, dst) = EscapedForm(SubSeq(str, 1, ptr), display, utf8)

C3_Witness ==
    /\ pc = "encode_chars"
    /\ ptr = Len(str)
    /\ display /\ utf8
    /\ str = << 240, 159, 140, 128, 128 >>
    /\ SubSeq(buf, 1, dst)
         = << 240, 159, 140, 128, 226, 128, 139, 92, 120, 56, 48 >>

\* C4: invalid-offset correctness.  is_valid returns 1 and leaves *errptr
\* unwritten when every unit run is well-formed, and otherwise returns 0
\* with *errptr the offset of the first byte of the first malformed run.
C4_InvalidOffset ==
    IsValidReturned
        => IF ValidUtf8(str) THEN valid = 1 /\ err = Unwritten
           ELSE valid = 0 /\ err = FirstMalformed(str, 0)

C4_Witness ==
    /\ IsValidReturned
    /\ valid = 0
    /\ err > 0
    /\ ptr > err
    /\ ptr < Len(str)

\* The estimator's exact total for the first p bytes of str.
ExactTotal(p) ==
    IF ce = CE_BYTES THEN Len(EscapedBytes(SubSeq(str, 1, p)))
    ELSE Len(EscapedForm(SubSeq(str, 1, p), display, utf8))

\* C5: overflow guard.  The running total of a size estimator is the exact
\* total of the unit runs read, never above INT_MAX; the size handed to an
\* encoder is the exact total of the input; and the size-overflow error is
\* raised, before the addition and with no size returned, when the exact
\* total would exceed INT_MAX.
C5_OverflowGuard ==
    /\ size >= 0 /\ size <= INT_MAX
    /\ size2 >= 0 /\ size2 <= INT_MAX
    /\ InEstimator => size = ExactTotal(ptr)
    /\ InEncoder => size2 = ExactTotal(Len(str))
    /\ (pc = "error" /\ fail.kind = "size overflow")
         => /\ ExactTotal(ptr) > INT_MAX
            /\ size2 = 0
            /\ \E q \in 0 .. ptr - 1 : size = ExactTotal(q)

C5_Witness ==
    /\ pc = "error"
    /\ fail.kind = "size overflow"
    /\ ce = CE_UTF8
    /\ size > 0

\* C6: width.  For a buffer of valid UTF-8 charsxp_width returns the sum
\* over its code points of 1 for NARROW or AMBIGUOUS, 2 for WIDE or EMOJI
\* and 0 for IGNORABLE or OTHER (0 for the empty buffer), and utf8_width
\* stores that sum.
C6_Width ==
    op = "utf8_width"
        => /\ (WidthReturned /\ ValidUtf8(str)) => width = ExpectedWidth(str, 0)
           /\ pc = "done"
                => \A k \in 1 .. Len(sx) :
                     (sx[k] # NA_STRING /\ ValidUtf8(sx[k].bytes))
                         => ans[k] = ExpectedWidth(sx[k].bytes, 0)

C6_Witness ==
    /\ op = "utf8_width"
    /\ pc = "done"
    /\ Len(sx) = 1
    /\ sx[1].bytes = << 240, 159, 140, 128, 226, 128, 140 >>
    /\ ans = << 2 >>

\* C7: no-op.  For an element of printable ASCII only, whatever the flags,
\* the size estimator returns 0 with a size equal to the input length, no
\* encoder runs on it, charsxp_encode returns the element itself, and as
\* long as only such elements (and NA) were met nothing is allocated for or
\* stored in the scratch buffer.
C7_NoOp ==
    op = "utf8_encode"
        => /\ (NeedsReturned /\ PrintableAscii(str))
                => (needs = 0 /\ size = Len(str))
           /\ InEncoder => ~PrintableAscii(sx[i + 1].bytes)
           /\ \A k \in 1 .. Len(sx) :
                (k <= i /\ sx[k] # NA_STRING /\ PrintableAscii(sx[k].bytes))
                    => ans[k] = sx[k]
           /\ (\A k \in 1 .. Len(sx) :
                 k <= i + 1 => (sx[k] = NA_STRING \/ PrintableAscii(sx[k].bytes)))
                => (nalloc = 0 /\ nbuf = 0 /\ buf = << >>)

C7_Witness ==
    /\ op = "utf8_encode"
    /\ pc = "done"
    /\ display /\ utf8
    /\ sx = << CharSxp(CE_UTF8, << 65, 65 >>) >>
    /\ ans = sx
    /\ ~duped
    /\ nalloc = 0

\* Whether element k of sx is a string whose examined bytes are not valid.
InvalidElt(k) == sx[k] # NA_STRING /\ ~ValidUtf8(ExaminedBytes(sx[k]))

\* C8: utf8_coerce ends in the invalid-byte error if and only if some
\* non-missing element is not valid UTF-8; the error cites the lowest index
\* of such an element (1-based) and the 1-based offset of its first invalid
\* byte; and a missing element is never scanned.
C8_CoerceError ==
    op = "utf8_coerce"
        => /\ pc = "is_valid" => sx[i + 1] # NA_STRING
           /\ pc = "done" => \A k \in 1 .. Len(sx) : ~InvalidElt(k)
           /\ (pc = "error" /\ fail.kind # "not a character vector")
                => /\ fail.entry \in 1 .. Len(sx)
                   /\ InvalidElt(fail.entry)
                   /\ \A k \in 1 .. fail.entry - 1 : ~InvalidElt(k)
                   /\ fail.position
                        = FirstMalformed(ExaminedBytes(sx[fail.entry]), 0) + 1

C8_Witness ==
    /\ op = "utf8_coerce"
    /\ pc = "error"
    /\ Len(sx) = 3
    /\ sx[1] = NA_STRING
    /\ InvalidElt(2) /\ InvalidElt(3)
    /\ sx[2] # sx[3]
    /\ fail.entry = 2

\* C9: scratch-buffer safety.  The recorded capacity nbuf never decreases
\* and never exceeds the bytes allocated for buf, and an encoder that runs
\* on an element of estimated size size2 has a buffer of at least size2
\* bytes.
C9_ScratchBufferSafe ==
    /\ [](nbuf <= nalloc /\ (InEncoder => size2 <= nalloc))
    /\ [][nbuf' >= nbuf]_vars

\* C10: cursor invariant.  In each walk the cursor never exceeds end and
\* each loop iteration moves it forward by 1 to 4 bytes.
C10_CursorInvariant ==
    /\ [](ptr <= Len(str))
    /\ [][(pc' = pc /\ ptr' # ptr) => (ptr' - ptr \in 1 .. 4)]_vars

==========================================================================
